---- MODULE Spec2Model ----
(***************************************************************************)
(* A model of the CAPTCHA dataset generator:                               *)
(*   src/enhanced_captcha.py   EnhancedImageCaptcha (text source, profile  *)
(*                             table, glyph layout)                        *)
(*   src/captcha_generator.py  CaptchaGenerator.generate_part (driver)     *)
(* Strings are sequences of one-character strings.  Fractions are kept as  *)
(* integers in hundredths.                                                 *)
(***************************************************************************)
EXTENDS Integers, Sequences, FiniteSets, TLC

VARIABLES
    \* ---- random text source (generate_text) ----
    textPc,        \* "idle" | "join" | "returned": position inside generate_text
    callArg,       \* the `length` argument of the running/last call, or None
    target,        \* the value of `length` after line 259
    joined,        \* characters produced so far by the generator expression
    returned,      \* the string returned by the last call
    seenLengths,   \* history: lengths returned so far by calls without argument
    \* ---- difficulty profiles (EnhancedImageCaptcha.__init__) ----
    instances,     \* constructed EnhancedImageCaptcha objects, by slot
    nextId,        \* identity of the next dict object to be allocated
    classTable,    \* the class attributes base_config, medium_config, hard_config
    \* ---- dataset driver (CaptchaGenerator.generate_part) ----
    part_config,   \* the min_length / max_length / num_samples of the part
    i,             \* loop variable of `for i in range(num_samples)`
    pc,            \* position of the driver
    labels,        \* the list `labels`
    disk,          \* files under images_dir: filename -> what was rendered
    failed,        \* history: the samples whose write raised
    attempted,     \* history: the samples for which write was called
    manifest,      \* labels.json: whether it was written, and its entries
    \* ---- layout engine (create_captcha_image) ----
    canvas,        \* <<self._width, self._height>>
    difficulty,    \* self.difficulty; self.config is the copy of its table entry
    chars,         \* the text being composed
    cpc,           \* position inside create_captcha_image
    ci,            \* index into chars of the next character to draw
    images,        \* the list `images`: size and character of each glyph image
    last_u,        \* history: the uniform draw of line 467 for the last character
    spacing_per_gap,
    start_offset,
    total_char_width,
    current_offset,
    pi,            \* index into images of the next glyph to paste
    last_paste,    \* history: position and size of the glyph pasted last
    pasted,        \* history: number of glyphs pasted
    raised,        \* the exception create_captcha_image raised, or "none"
    background,    \* what fills the canvas: "none", "flat" or "complex"
    steps,         \* history: the operations applied to the canvas, in order
    raw_images,    \* history: the glyph images as measured at line 479
    \* ---- image pipeline (generate_image and the layers it calls) ----
    gpc,           \* position inside generate_image
    number,        \* create_noise_dots: the parameter `number`
    count,         \* create_noise_dots: the loop counter `count`
    last_dot,      \* history: <<x1, y1>> of the mark drawn last
    curve_k,       \* noise curves drawn so far by the loop of line 553
    nd_count,      \* add_non_ascii_distractors: the parameter `count`
    ndpc,          \* position inside add_non_ascii_distractors
    nd_k,          \* add_non_ascii_distractors: iterations of its loop so far
    nd_drawn,      \* history: distractors drawn
    nd_skipped,    \* history: distractors whose draw.text failed
    nd_last,       \* history: <<x, y>> of the last placement
    layer_raised,  \* the exception that left generate_image, or "none"
    \* ---- font pool (the truefonts property) ----
    fonts,         \* self._fonts: the font files
    font_sizes,    \* self._font_sizes
    loadable,      \* environment: the <<file, size>> pairs truetype can load
    truefonts,     \* self._truefonts
    load_runs,     \* history: how many times the loading branch ran
    reads,         \* history: how many times the property was read
    returned_pools, \* history: the list each read returned
    \* ---- pure computations applied to drawn inputs ----
    gap_call,      \* the gap computation of lines 482-514: input and result
    warp_call      \* the warp of lines 434-440: input, draws and result

textVars    == <<textPc, callArg, target, joined, returned, seenLengths>>
profileVars == <<instances, nextId, classTable>>
driverVars  == <<part_config, i, pc, labels, disk, failed, attempted, manifest>>
composeVars == <<canvas, difficulty, chars, cpc, ci, images, last_u, spacing_per_gap,
                 start_offset, total_char_width, current_offset, pi, last_paste,
                 pasted, raised, background, steps, raw_images>>
imageVars   == <<gpc, number, count, last_dot, curve_k, nd_count, ndpc, nd_k, nd_drawn,
                 nd_skipped, nd_last, layer_raised>>
fontVars    == <<fonts, font_sizes, loadable, truefonts, load_runs, reads,
                 returned_pools>>
gapVars     == <<gap_call>>
warpVars    == <<warp_call>>
laterVars   == <<imageVars, fontVars, gapVars, warpVars>>
vars        == <<textVars, profileVars, driverVars, composeVars, laterVars>>

\* an omitted optional argument (Python's None) is the empty sequence, a given
\* one <<value>>
None == <<>>
Some(v) == <<v>>

\* part_config.get('width', 160), part_config.get('height', 60)
DefaultWidth == 160
DefaultHeight == 60

(***************************************************************************)
(* Bounds of the model.                                                    *)
(***************************************************************************)
\* secrets.randbelow(n) is enumerated in full for n <= ExactBelow ...
ExactBelow == 5
\* ... and by Samples+1 evenly spread outcomes (0 and n-1 included) above it.
Samples == 1

(***************************************************************************)
(* The secure random source.                                               *)
(***************************************************************************)
randbelow(n) ==
    IF n <= ExactBelow THEN 0 .. (n - 1)
    ELSE {(j * (n - 1)) \div Samples : j \in 0 .. Samples}

choice(seq) == {seq[r + 1] : r \in randbelow(Len(seq))}

(***************************************************************************)
(* Random text source: EnhancedImageCaptcha.generate_text                  *)
(***************************************************************************)
ALPHANUMERIC_CHARS_Lower ==
    <<"0", "1", "2", "3", "4", "5", "6", "7", "8", "9",
      "A", "B", "C", "D", "E", "F", "G", "H", "I", "J", "K", "L", "M",
      "N", "O", "P", "Q", "R", "S", "T", "U", "V", "W", "X", "Y", "z">>

ALPHANUMERIC_CHARS ==
    <<"0", "1", "2", "3", "4", "5", "6", "7", "8", "9",
      "A", "B", "C", "D", "E", "F", "G", "H", "I", "J", "K", "L", "M",
      "N", "O", "P", "Q", "R", "S", "T", "U", "V", "W", "X", "Y", "Z">>

\* the lengths the demo (and the documented contract) passes explicitly
ExplicitLengths == 3 .. 7

DrawLength_Six == {r + 3 : r \in randbelow(6)}

\* line 259: length = secrets.randbelow(5) + 3
DrawLength == {r + 3 : r \in randbelow(5)}

\* lines 258-259: the value of `length` once the default is resolved
ResolveLength(length) == IF length = None THEN DrawLength ELSE {length[1]}

\* entry of generate_text(length)
EnterGenerateText(length) ==
    /\ textPc \in {"idle", "returned"}
    /\ callArg' = length
    /\ target' \in ResolveLength(length)
    /\ joined' = <<>>
    /\ returned' = <<>>
    /\ textPc' = "join"
    /\ UNCHANGED seenLengths

\* range(length) still has an element to give
JoinMore == Len(joined) < target

\* one step of the generator expression of line 260
JoinChar ==
    /\ textPc = "join"
    /\ JoinMore
    /\ \E c \in choice(ALPHANUMERIC_CHARS) : joined' = Append(joined, c)
    /\ UNCHANGED <<textPc, callArg, target, returned, seenLengths>>

\* ''.join(...) is complete: the call returns
ReturnText ==
    /\ textPc = "join"
    /\ ~JoinMore
    /\ returned' = joined
    /\ textPc' = "returned"
    /\ seenLengths' = IF callArg = None THEN seenLengths \cup {Len(joined)}
                      ELSE seenLengths
    /\ UNCHANGED <<callArg, target, joined>>

\* test_character_generation: explicit lengths 3..7, then calls without one
CallGenerateText ==
    /\ \E length \in {Some(L) : L \in ExplicitLengths} \cup {None} :
           EnterGenerateText(length)
    /\ UNCHANGED <<profileVars, driverVars, composeVars, laterVars>>

TextStep ==
    /\ (JoinChar \/ ReturnText)
    /\ UNCHANGED <<profileVars, driverVars, composeVars, laterVars>>

(***************************************************************************)
(* Difficulty profiles: the class-level tables and __init__                *)
(* Fractions are in hundredths: 0.3 is 30.                                 *)
(***************************************************************************)
\* [int(i * 1.97) for i in range(256)], entry i at position i+1
lookup_table == [k \in 1 .. 256 |-> ((k - 1) * 197) \div 100]

base_config ==
    [lookup_table |-> lookup_table,
     character_offset_dx |-> <<0, 4>>,
     character_offset_dy |-> <<0, 6>>,
     character_rotate |-> <<-30, 30>>,
     character_warp_dx |-> <<10, 30>>,
     character_warp_dy |-> <<20, 30>>,
     word_space_probability |-> 30,
     word_offset_dx |-> 25,
     noise_dots |-> 30,
     noise_curves |-> 1]

medium_config_FewerDots ==
    [lookup_table |-> lookup_table,
     character_offset_dx |-> <<0, 6>>,
     character_offset_dy |-> <<0, 8>>,
     character_rotate |-> <<-35, 35>>,
     character_warp_dx |-> <<10, 25>>,
     character_warp_dy |-> <<15, 25>>,
     word_space_probability |-> 40,
     word_offset_dx |-> 35,
     noise_dots |-> 25,
     noise_curves |-> 2,
     line_distractors |-> 2,
     complex_background |-> TRUE]

medium_config ==
    [lookup_table |-> lookup_table,
     character_offset_dx |-> <<0, 6>>,
     character_offset_dy |-> <<0, 8>>,
     character_rotate |-> <<-35, 35>>,
     character_warp_dx |-> <<10, 25>>,
     character_warp_dy |-> <<15, 25>>,
     word_space_probability |-> 40,
     word_offset_dx |-> 35,
     noise_dots |-> 35,
     noise_curves |-> 2,
     line_distractors |-> 2,
     complex_background |-> TRUE]

hard_config ==
    [lookup_table |-> lookup_table,
     character_offset_dx |-> <<0, 8>>,
     character_offset_dy |-> <<0, 10>>,
     character_rotate |-> <<-45, 45>>,
     character_warp_dx |-> <<15, 35>>,
     character_warp_dy |-> <<20, 35>>,
     word_space_probability |-> 40,
     word_offset_dx |-> 40,
     noise_dots |-> 45,
     noise_curves |-> 3,
     line_distractors |-> 3,
     complex_background |-> TRUE,
     circular_distractors |-> 2,
     non_ascii_distractors |-> 1,
     blur_effect |-> FALSE,
     character_overlap |-> FALSE]

\* A dict object: its identity and its items.  The three class attributes are
\* the objects 1, 2 and 3, created when the class body runs.
ClassTable ==
    [base_config   |-> [id |-> 1, items |-> base_config],
     medium_config |-> [id |-> 2, items |-> medium_config],
     hard_config   |-> [id |-> 3, items |-> hard_config]]

\* the tier names the command line accepts, and one it does not
RegisteredTiers == {"part2", "part3", "part4"}
TierNames == RegisteredTiers \cup {"part5"}

\* instances constructed, and generation calls made on each, in one session
MaxInstances == 2
MaxCalls == 2

copy_Alias(d, fresh) == d

\* dict.copy(): a new dict object holding the same items
copy(d, fresh) == [id |-> fresh, items |-> d.items]

\* lines 211-216: the table entry the constructor copies
SelectConfig(tier) ==
    IF tier = "part3" THEN classTable.medium_config
    ELSE IF tier = "part4" THEN classTable.hard_config
    ELSE classTable.base_config

TotalCalls(insts) ==
    LET RECURSIVE Sum(_)
        Sum(k) == IF k = 0 THEN 0 ELSE insts[k].calls + Sum(k - 1)
    IN Sum(Len(insts))

\* EnhancedImageCaptcha(difficulty=...): lines 179-219
Construct(tier) ==
    /\ Len(instances) < MaxInstances
    /\ instances' = Append(instances,
           [difficulty |-> tier,
            config |-> copy(SelectConfig(tier), nextId),
            truefonts_loaded |-> FALSE,
            calls |-> 0,
            calls_before |-> TotalCalls(instances)])
    /\ nextId' = nextId + 1
    /\ UNCHANGED classTable

\* generate_text on instance k: reads nothing of the instance, writes nothing
InstanceGenerateText(k) ==
    /\ instances[k].calls < MaxCalls
    /\ instances' = [instances EXCEPT ![k].calls = @ + 1]
    /\ UNCHANGED <<nextId, classTable>>

\* generate / write on instance k: generate_image reads self.config and, through
\* the truefonts property, fills the font pool on first use (lines 221-254)
InstanceGenerateImage(k) ==
    /\ instances[k].calls < MaxCalls
    /\ instances' = [instances EXCEPT ![k].calls = @ + 1,
                                      ![k].truefonts_loaded = TRUE]
    /\ UNCHANGED <<nextId, classTable>>

TextIdle ==
    /\ textPc = "idle"
    /\ callArg = None
    /\ target = 0
    /\ joined = <<>>
    /\ returned = <<>>
    /\ seenLengths = {}

ProfileIdle ==
    /\ instances = <<>>
    /\ nextId = 4
    /\ classTable = ClassTable

DriverIdle ==
    /\ part_config = [part |-> "part2", width |-> DefaultWidth, height |-> DefaultHeight,
                      min_length |-> 0, max_length |-> 0, num_samples |-> 0]
    /\ i = 0
    /\ pc = "idle"
    /\ labels = <<>>
    /\ disk = <<>>
    /\ failed = {}
    /\ attempted = {}
    /\ manifest = [written |-> FALSE, entries |-> <<>>]

NoPaste == [x |-> 0, y |-> 0, w |-> 0, h |-> 0, c |-> ""]

\* no composition under way
ComposeIdle ==
    /\ canvas = <<DefaultWidth, DefaultHeight>>
    /\ difficulty = "part2"
    /\ chars = <<>>
    /\ cpc = "idle"
    /\ ci = 1
    /\ images = <<>>
    /\ last_u = 0
    /\ spacing_per_gap = 0
    /\ start_offset = 0
    /\ total_char_width = 0
    /\ current_offset = 0
    /\ pi = 1
    /\ last_paste = NoPaste
    /\ pasted = 0
    /\ raised = "none"
    /\ background = "none"
    /\ steps = <<>>
    /\ raw_images = <<>>

\* generate_image is not running
ImageIdle ==
    /\ gpc = "idle"
    /\ number = 0
    /\ count = 0
    /\ last_dot = <<0, 0>>
    /\ curve_k = 0
    /\ nd_count = 0
    /\ ndpc = "idle"
    /\ nd_k = 0
    /\ nd_drawn = 0
    /\ nd_skipped = 0
    /\ nd_last = <<0, 0>>
    /\ layer_raised = "none"

\* an instance without font files whose pool was never read
FontIdle ==
    /\ fonts = <<>>
    /\ font_sizes = <<>>
    /\ loadable = {}
    /\ truefonts = <<>>
    /\ load_runs = 0
    /\ reads = 0
    /\ returned_pools = <<>>

GapIdle ==
    gap_call = [pc |-> "idle", width |-> 0, num_chars |-> 0, tier |-> "part2",
                spacing_per_gap |-> 0]

WarpIdle ==
    warp_call = [pc |-> "idle", w |-> 0, h |-> 0, tier |-> "part2", dx2 |-> 0,
                 dy2 |-> 0, x1 |-> 0, y1 |-> 0, x2 |-> 0, y2 |-> 0]

LaterIdle == ImageIdle /\ FontIdle /\ GapIdle /\ WarpIdle

Resolve ==
    /\ \E tier \in TierNames : Construct(tier)
    /\ UNCHANGED <<textVars, driverVars, composeVars, laterVars>>

CallText ==
    /\ \E k \in DOMAIN instances : InstanceGenerateText(k)
    /\ UNCHANGED <<textVars, driverVars, composeVars, laterVars>>

CallImage ==
    /\ \E k \in DOMAIN instances : InstanceGenerateImage(k)
    /\ UNCHANGED <<textVars, driverVars, composeVars, laterVars>>

TextInit == TextIdle /\ ProfileIdle /\ DriverIdle /\ ComposeIdle /\ LaterIdle

TextNext == CallGenerateText \/ TextStep

SpecText == TextInit /\ [][TextNext]_vars

ProfileInit == TextIdle /\ ProfileIdle /\ DriverIdle /\ ComposeIdle /\ LaterIdle

ProfileNext == Resolve \/ CallText \/ CallImage

SpecProfile == ProfileInit /\ [][ProfileNext]_vars

(***************************************************************************)
(* Dataset driver: CaptchaGenerator.generate_part                          *)
(***************************************************************************)
\* largest min_length / max_length, and largest num_samples, of a part config
MaxCfgLength == 1
MaxSamples == 3

PartConfigs ==
    [part : {"part2"}, width : {DefaultWidth}, height : {DefaultHeight},
     min_length : 0 .. MaxCfgLength, max_length : 0 .. MaxCfgLength,
     num_samples : 0 .. MaxSamples]

\* Python's a % b for a >= 0 and b # 0: the result has the sign of b
PyMod(a, b) == IF b > 0 THEN a % b ELSE -((-a) % (-b))

\* the divisor of line 61
LengthCycle_OneMore(cfg) == cfg.max_length - cfg.min_length + 2

LengthCycle(cfg) == cfg.max_length - cfg.min_length + 1

\* line 61: text_length = min_length + (i % (max_length - min_length + 1))
text_length(n, cfg) == cfg.min_length + PyMod(n, LengthCycle(cfg))

DecimalDigit == <<"0", "1", "2", "3", "4", "5", "6", "7", "8", "9">>

RECURSIVE Decimal(_)
Decimal(n) ==
    IF n < 10 THEN <<DecimalDigit[n + 1]>>
    ELSE Decimal(n \div 10) \o <<DecimalDigit[(n % 10) + 1]>>

RECURSIVE ZeroPad(_, _)
ZeroPad(str, width) ==
    IF Len(str) >= width THEN str ELSE ZeroPad(<<"0">> \o str, width)

\* line 54: image_id = f"{i+1:06d}"
image_id(n) == ZeroPad(Decimal(n + 1), 6)

\* line 55: image_filename = f"{image_id}.png"
image_filename(n) == image_id(n) \o <<".", "p", "n", "g">>

\* lines 76-83: the entry appended for sample n rendered from `text`
LabelEntry(n, text) ==
    [height |-> part_config.height,
     width |-> part_config.width,
     image_id |-> image_id(n),
     captcha_string |-> text,
     filename |-> image_filename(n),
     difficulty |-> part_config.part]

\* the file captcha.write leaves under `output`: the characters it rendered,
\* and whether im.save completed
StoreFile(files, name, text, complete) ==
    [f \in DOMAIN files \cup {name} |->
        IF f = name THEN [chars |-> text, complete |-> complete] ELSE files[f]]

\* lines 52-63: the head of one iteration, up to the call of generate_text.
\* A zero divisor at line 61 raises ZeroDivisionError outside the try block.
BeginSample ==
    /\ pc = "loop"
    /\ i < part_config.num_samples
    /\ IF LengthCycle(part_config) = 0
       THEN /\ pc' = "aborted"
            /\ UNCHANGED textVars
       ELSE /\ pc' = "generate_text"
            /\ EnterGenerateText(Some(text_length(i, part_config)))
    /\ UNCHANGED <<part_config, i, labels, disk, failed, attempted, manifest>>
    /\ UNCHANGED <<profileVars, composeVars, laterVars>>

DriverTextStep ==
    /\ pc = "generate_text"
    /\ (JoinChar \/ ReturnText)
    /\ UNCHANGED <<profileVars, driverVars, composeVars, laterVars>>

LabelsOnRaise_Append(entry) == Append(labels, entry)

\* lines 89-91: the append of line 76 is skipped when write raised
LabelsOnRaise(entry) == labels

PcOnRaise_Propagate == "aborted"

\* lines 89-91: `except Exception ... continue` goes on with the next i
PcOnRaise == "loop"

\* lines 66-87: captcha.write returned; the label is appended
WriteReturns ==
    /\ pc = "generate_text"
    /\ textPc = "returned"
    /\ disk' = StoreFile(disk, image_filename(i), returned, TRUE)
    /\ labels' = Append(labels, LabelEntry(i, returned))
    /\ attempted' = attempted \cup {i}
    /\ i' = i + 1
    /\ pc' = "loop"
    /\ UNCHANGED <<part_config, failed, manifest>>
    /\ UNCHANGED <<textVars, profileVars, composeVars, laterVars>>

\* lines 66-73, 89-91: captcha.write raised, while rendering (no file) or
\* inside im.save (a file that is not complete)
WriteRaises ==
    /\ pc = "generate_text"
    /\ textPc = "returned"
    /\ \/ disk' = disk
       \/ disk' = StoreFile(disk, image_filename(i), returned, FALSE)
    /\ labels' = LabelsOnRaise(LabelEntry(i, returned))
    /\ attempted' = attempted \cup {i}
    /\ failed' = failed \cup {i}
    /\ i' = i + 1
    /\ pc' = PcOnRaise
    /\ UNCHANGED <<part_config, manifest>>
    /\ UNCHANGED <<textVars, profileVars, composeVars, laterVars>>

\* lines 93-96: range(num_samples) is exhausted; labels.json is written
SaveLabels ==
    /\ pc = "loop"
    /\ i >= part_config.num_samples
    /\ manifest' = [written |-> TRUE, entries |-> labels]
    /\ pc' = "done"
    /\ UNCHANGED <<part_config, i, labels, disk, failed, attempted>>
    /\ UNCHANGED <<textVars, profileVars, composeVars, laterVars>>

\* generate_part(part) entered with the part's configuration: lines 27-50
DriverInit ==
    /\ TextIdle
    /\ ProfileIdle
    /\ ComposeIdle
    /\ LaterIdle
    /\ part_config \in PartConfigs
    /\ i = 0
    /\ pc = "loop"
    /\ labels = <<>>
    /\ disk = <<>>
    /\ failed = {}
    /\ attempted = {}
    /\ manifest = [written |-> FALSE, entries |-> <<>>]

DriverNext ==
    BeginSample \/ DriverTextStep \/ WriteReturns \/ WriteRaises \/ SaveLabels

SpecDriver == DriverInit /\ [][DriverNext]_vars

(***************************************************************************)
(* Layout engine: EnhancedImageCaptcha.create_captcha_image                *)
(***************************************************************************)
\* longest text composed
MaxTextLen == 2
\* glyph boxes the renderer hands to the layout: k * (GlyphUnitW, GlyphUnitH)
\* for k in 1..MaxGlyphScale
MaxGlyphScale == 3
GlyphUnitW == 16
GlyphUnitH == 13

\* the canvas sizes of the demo: 160x60 (the default), 180x80, 200x100
Canvases == {<<160, 60>>, <<180, 80>>, <<200, 100>>}

\* a sample text of the demo and its prefixes
SampleText == <<"A", "7", "X", "9">>
Texts == {SubSeq(SampleText, 1, n) : n \in 0 .. MaxTextLen}

GlyphSizes == {<<GlyphUnitW * k, GlyphUnitH * k>> : k \in 1 .. MaxGlyphScale}

\* secrets.randbits(32) / (2**32), in hundredths, sampled like randbelow
Uniform01 == {(j * 99) \div Samples : j \in 0 .. Samples}

\* self.config of an instance of the given difficulty, and dict.get
ConfigOf(d) == SelectConfig(d).items
Get(cfg, key, default) == IF key \in DOMAIN cfg THEN cfg[key] ELSE default

\* int(a / b) for integers a and b > 0: truncation toward zero
TruncDiv(a, b) == IF a >= 0 THEN a \div b ELSE -((-a) \div b)

Max(a, b) == IF a >= b THEN a ELSE b
Min(a, b) == IF a <= b THEN a ELSE b

\* int(x) of a double x computed as num / den (num, den > 0) through inexact
\* factors such as 0.9 * 0.7: when the exact quotient is an integer q the
\* double may fall just below it, and int() then gives q - 1
IntOfDouble(num, den) ==
    IF num % den = 0 THEN {(num \div den) - 1, num \div den} ELSE {num \div den}

\* lines 406-451: the image _draw_character returns, by its size; the space
\* is the 10x10 transparent placeholder of line 410
draw_character(c) ==
    IF c = " " THEN {[w |-> 10, h |-> 10, c |-> " "]}
    ELSE {[w |-> sz[1], h |-> sz[2], c |-> c] : sz \in GlyphSizes}

\* line 467: randbits(32) / 2**32 > word_space_probability
InsertSpace(u, p) == u > p

RECURSIVE SumWidths(_)
SumWidths(ims) == IF ims = <<>> THEN 0 ELSE Head(ims).w + SumWidths(Tail(ims))

\* lines 495-497 for one image: both sides times target_char_width /
\* total_char_width, where target_char_width = width * 0.9 * 0.7
ScaleOne(im, total, W) ==
    {[w |-> nw, h |-> nh, c |-> im.c] :
        nw \in IntOfDouble(im.w * 63 * W, 100 * total),
        nh \in IntOfDouble(im.h * 63 * W, 100 * total)}

RECURSIVE ScaleAll(_, _, _)
ScaleAll(ims, total, W) ==
    IF ims = <<>> THEN {<<>>}
    ELSE {<<g>> \o rest : g \in ScaleOne(Head(ims), total, W),
                          rest \in ScaleAll(Tail(ims), total, W)}

NeedsGaps_Always(num_chars) == num_chars >= 1

\* line 483: if num_chars > 1
NeedsGaps(num_chars) == num_chars > 1

\* lines 490-500: the images after the optional upscaling
Rescaled(ims, W) ==
    IF SumWidths(ims) * 100 < 63 * W THEN ScaleAll(ims, SumWidths(ims), W)
    ELSE {ims}

\* lines 511-514: the reduction of the gap when character_overlap is set
Overlapped(cfg, gap) ==
    IF Get(cfg, "character_overlap", FALSE)
    THEN Max(5, gap - ((gap * 3) \div 10))
    ELSE gap

\* lines 483-505: spacing_per_gap = int(target_spacing_width / (num_chars - 1))
\* with target_spacing_width = width * 0.9 * 0.3, or 0 for a single glyph
SpacingPerGap(W, num_chars) ==
    IF NeedsGaps(num_chars) THEN (27 * W) \div (100 * (num_chars - 1)) ELSE 0

\* lines 456-463: the canvas is created and, if the profile asks for it, the
\* complex background is drawn over the flat fill
ComposeBegin ==
    /\ cpc = "start"
    /\ background' = IF Get(ConfigOf(difficulty), "complex_background", FALSE)
                     THEN "complex" ELSE "flat"
    /\ steps' = IF Get(ConfigOf(difficulty), "complex_background", FALSE)
                THEN <<"canvas", "complex_background">> ELSE <<"canvas">>
    /\ cpc' = "draw"
    /\ UNCHANGED <<canvas, difficulty, chars, ci, images, last_u, spacing_per_gap,
                   start_offset, total_char_width, current_offset, pi, last_paste,
                   pasted, raised, raw_images>>
    /\ UNCHANGED <<textVars, profileVars, driverVars, laterVars>>

\* lines 466-469: one iteration of `for c in chars`
DrawChar ==
    /\ cpc = "draw"
    /\ ci <= Len(chars)
    /\ \E u \in Uniform01, glyph \in draw_character(chars[ci]) :
        /\ last_u' = u
        /\ images' =
            IF InsertSpace(u, ConfigOf(difficulty).word_space_probability)
            THEN images \o <<CHOOSE sp \in draw_character(" ") : TRUE, glyph>>
            ELSE Append(images, glyph)
    /\ ci' = ci + 1
    /\ UNCHANGED <<canvas, difficulty, chars, cpc, spacing_per_gap, start_offset,
                   total_char_width, current_offset, pi, last_paste, pasted,
                   raised, background, steps, raw_images>>
    /\ UNCHANGED <<textVars, profileVars, driverVars, laterVars>>

\* lines 471-517: the loop over chars is over; the images are filtered,
\* measured, rescaled and the gap and the start offset are computed
Layout ==
    /\ cpc = "draw"
    /\ ci > Len(chars)
    /\ LET W == canvas[1]
           kept == SelectSeq(images, LAMBDA im : im.w > 0 /\ im.h > 0)
           num_chars == Len(kept)
       IN
       IF kept = <<>>
       THEN \* line 474: if not images: return image
            /\ images' = kept
            /\ cpc' = "returned"
            /\ UNCHANGED <<spacing_per_gap, start_offset, total_char_width,
                           current_offset, pi, raised>>
       ELSE IF NeedsGaps(num_chars) /\ num_chars - 1 = 0
       THEN \* line 503: division by num_chars - 1
            /\ \E scaled \in Rescaled(kept, W) :
                   /\ images' = scaled
                   /\ total_char_width' = SumWidths(scaled)
            /\ raised' = "ZeroDivisionError"
            /\ cpc' = "raised"
            /\ UNCHANGED <<spacing_per_gap, start_offset, current_offset, pi>>
       ELSE
            \E scaled \in (IF NeedsGaps(num_chars) THEN Rescaled(kept, W) ELSE {kept}) :
              LET gap == SpacingPerGap(W, num_chars)
                  total == SumWidths(scaled)
                  total_width_needed == total + gap * (num_chars - 1)
              IN
              /\ images' = scaled
              /\ total_char_width' = total
              /\ start_offset' = Max(10, TruncDiv(W - total_width_needed, 2))
              /\ spacing_per_gap' = Overlapped(ConfigOf(difficulty), gap)
              /\ current_offset' = start_offset'
              /\ pi' = 1
              /\ cpc' = "paste"
              /\ UNCHANGED raised
    /\ raw_images' = SelectSeq(images, LAMBDA im : im.w > 0 /\ im.h > 0)
    /\ UNCHANGED <<canvas, difficulty, chars, ci, last_u, last_paste, pasted,
                   background, steps>>
    /\ UNCHANGED <<textVars, profileVars, driverVars, laterVars>>

\* lines 518-533: one iteration of `for i, im in enumerate(images)`
Paste ==
    /\ cpc = "paste"
    /\ pi <= Len(images)
    /\ LET im == images[pi]
           H == canvas[2]
       IN
       \E rv \in randbelow(11), rh \in randbelow(11) :
         LET vertical_offset == TruncDiv(H - im.h, 2) + rv - 5
             clamped == Max(0, Min(vertical_offset, H - im.h))
             horizontal_variation == rh - 5
             final_offset == Max(0, current_offset + horizontal_variation)
         IN
         /\ last_paste' = [x |-> final_offset, y |-> clamped, w |-> im.w,
                           h |-> im.h, c |-> im.c]
         /\ current_offset' = current_offset + im.w + spacing_per_gap
    /\ pasted' = pasted + 1
    /\ steps' = Append(steps, "glyph")
    /\ pi' = pi + 1
    /\ UNCHANGED <<canvas, difficulty, chars, cpc, ci, images, last_u,
                   spacing_per_gap, start_offset, total_char_width, raised,
                   background, raw_images>>
    /\ UNCHANGED <<textVars, profileVars, driverVars, laterVars>>

\* line 535: return image
ComposeReturn ==
    /\ cpc = "paste"
    /\ pi > Len(images)
    /\ cpc' = "returned"
    /\ UNCHANGED <<canvas, difficulty, chars, ci, images, last_u, spacing_per_gap,
                   start_offset, total_char_width, current_offset, pi, last_paste,
                   pasted, raised, background, steps, raw_images>>
    /\ UNCHANGED <<textVars, profileVars, driverVars, laterVars>>

\* create_captcha_image(chars, color, background) entered on an instance of
\* some size and difficulty
ComposeEntered ==
    /\ canvas \in Canvases
    /\ difficulty \in RegisteredTiers
    /\ chars \in Texts
    /\ cpc = "start"
    /\ ci = 1
    /\ images = <<>>
    /\ last_u = 0
    /\ spacing_per_gap = 0
    /\ start_offset = 0
    /\ total_char_width = 0
    /\ current_offset = 0
    /\ pi = 1
    /\ last_paste = NoPaste
    /\ pasted = 0
    /\ raised = "none"
    /\ background = "none"
    /\ steps = <<>>
    /\ raw_images = <<>>

ComposeInit == TextIdle /\ ProfileIdle /\ DriverIdle /\ LaterIdle /\ ComposeEntered

ComposeNext == ComposeBegin \/ DrawChar \/ Layout \/ Paste \/ ComposeReturn

SpecCompose == ComposeInit /\ [][ComposeNext]_vars

(***************************************************************************)
(* Image pipeline: EnhancedImageCaptcha.generate_image and the layers it   *)
(* draws over the composed canvas                                          *)
(***************************************************************************)
\* most distractors asked of add_non_ascii_distractors when it is called on
\* its own
MaxDistractors == 3

\* the order of the statements of generate_image, lines 547-580
NextStage_SmoothEarly(stage) ==
    CASE stage = "compose" -> "noise_dots"
      [] stage = "noise_dots" -> "noise_curves"
      [] stage = "noise_curves" -> "line_distractors"
      [] stage = "line_distractors" -> "circular_distractors"
      [] stage = "circular_distractors" -> "smooth"
      [] stage = "smooth" -> "non_ascii_distractors"
      [] stage = "non_ascii_distractors" -> "returned"

NextStage(stage) ==
    CASE stage = "compose" -> "noise_dots"
      [] stage = "noise_dots" -> "noise_curves"
      [] stage = "noise_curves" -> "line_distractors"
      [] stage = "line_distractors" -> "circular_distractors"
      [] stage = "circular_distractors" -> "non_ascii_distractors"
      [] stage = "non_ascii_distractors" -> "smooth"
      [] stage = "smooth" -> "returned"

\* line 547 returns: the frame of create_captcha_image is gone, the canvas
\* it returned (background, steps) is `im`
FrameDropped ==
    /\ cpc' = "idle"
    /\ ci' = 1
    /\ images' = <<>>
    /\ last_u' = 0
    /\ spacing_per_gap' = 0
    /\ start_offset' = 0
    /\ total_char_width' = 0
    /\ current_offset' = 0
    /\ pi' = 1
    /\ last_paste' = NoPaste
    /\ pasted' = 0
    /\ raw_images' = <<>>
    /\ UNCHANGED <<canvas, difficulty, chars, raised, background>>

\* line 550: create_noise_dots(im, color, number=self.config['noise_dots'])
\* is entered (lines 382-384)
CallNoiseDots ==
    /\ gpc = "compose"
    /\ cpc = "returned"
    /\ FrameDropped
    /\ steps' = Append(steps, "noise_dots")
    /\ number' = ConfigOf(difficulty).noise_dots
    /\ count' = 0
    /\ gpc' = NextStage(gpc)
    /\ UNCHANGED <<last_dot, curve_k, nd_count, ndpc, nd_k, nd_drawn, nd_skipped,
                   nd_last, layer_raised>>
    /\ UNCHANGED <<textVars, profileVars, driverVars, fontVars, gapVars, warpVars>>

\* lines 385-403: one iteration of `while count < number`
DotStep ==
    /\ gpc = "noise_dots"
    /\ count < number
    /\ \E x1 \in randbelow(canvas[1] + 1), y1 \in randbelow(canvas[2] + 1) :
           last_dot' = <<x1, y1>>
    /\ count' = count + 1
    /\ UNCHANGED <<gpc, number, curve_k, nd_count, ndpc, nd_k, nd_drawn, nd_skipped,
                   nd_last, layer_raised>>
    /\ UNCHANGED <<textVars, profileVars, driverVars, composeVars, fontVars,
                   gapVars, warpVars>>

\* line 404: return image; generate_image goes on to the curves
DotsReturn ==
    /\ gpc = "noise_dots"
    /\ ~(count < number)
    /\ gpc' = NextStage(gpc)
    /\ curve_k' = 0
    /\ UNCHANGED <<number, count, last_dot, nd_count, ndpc, nd_k, nd_drawn,
                   nd_skipped, nd_last, layer_raised>>
    /\ UNCHANGED <<textVars, profileVars, driverVars, composeVars, fontVars,
                   gapVars, warpVars>>

\* lines 553-563: one iteration of `for _ in range(self.config['noise_curves'])`
NoiseCurve ==
    /\ gpc = "noise_curves"
    /\ curve_k < ConfigOf(difficulty).noise_curves
    /\ steps' = Append(steps, "noise_curve")
    /\ curve_k' = curve_k + 1
    /\ UNCHANGED <<canvas, difficulty, chars, cpc, ci, images, last_u, spacing_per_gap,
                   start_offset, total_char_width, current_offset, pi, last_paste,
                   pasted, raised, background, raw_images>>
    /\ UNCHANGED <<gpc, number, count, last_dot, nd_count, ndpc, nd_k, nd_drawn,
                   nd_skipped, nd_last, layer_raised>>
    /\ UNCHANGED <<textVars, profileVars, driverVars, fontVars, gapVars, warpVars>>

CurvesDone ==
    /\ gpc = "noise_curves"
    /\ ~(curve_k < ConfigOf(difficulty).noise_curves)
    /\ gpc' = NextStage(gpc)
    /\ UNCHANGED <<number, count, last_dot, curve_k, nd_count, ndpc, nd_k, nd_drawn,
                   nd_skipped, nd_last, layer_raised>>
    /\ UNCHANGED <<textVars, profileVars, driverVars, composeVars, fontVars,
                   gapVars, warpVars>>

\* a layer drawn only when its key is in self.config
OptionalLayer(key) ==
    /\ gpc = key
    /\ steps' = IF key \in DOMAIN ConfigOf(difficulty) THEN Append(steps, key)
                ELSE steps
    /\ gpc' = NextStage(gpc)
    /\ UNCHANGED <<canvas, difficulty, chars, cpc, ci, images, last_u, spacing_per_gap,
                   start_offset, total_char_width, current_offset, pi, last_paste,
                   pasted, raised, background, raw_images>>
    /\ UNCHANGED <<number, count, last_dot, curve_k, nd_count, ndpc, nd_k, nd_drawn,
                   nd_skipped, nd_last, layer_raised>>
    /\ UNCHANGED <<textVars, profileVars, driverVars, fontVars, gapVars, warpVars>>

\* lines 566-567
LineDistractors == OptionalLayer("line_distractors")

\* lines 570-571
CircularDistractors == OptionalLayer("circular_distractors")

\* lines 574-575 and 333-339: add_non_ascii_distractors is entered when the
\* profile has the key; the font pool is never empty, so line 339 passes
CallNonAscii ==
    /\ gpc = "non_ascii_distractors"
    /\ ndpc = "idle"
    /\ IF "non_ascii_distractors" \in DOMAIN ConfigOf(difficulty)
       THEN /\ steps' = Append(steps, "non_ascii_distractors")
            /\ nd_count' = ConfigOf(difficulty).non_ascii_distractors
            /\ ndpc' = "loop"
            /\ UNCHANGED gpc
       ELSE /\ gpc' = NextStage(gpc)
            /\ UNCHANGED <<steps, nd_count, ndpc>>
    /\ UNCHANGED <<canvas, difficulty, chars, cpc, ci, images, last_u, spacing_per_gap,
                   start_offset, total_char_width, current_offset, pi, last_paste,
                   pasted, raised, background, raw_images>>
    /\ UNCHANGED <<number, count, last_dot, curve_k, nd_k, nd_drawn, nd_skipped,
                   nd_last, layer_raised>>
    /\ UNCHANGED <<textVars, profileVars, driverVars, fontVars, gapVars, warpVars>>

\* secrets.randbelow raises ValueError unless its argument is positive
RandbelowRaises(n) == n <= 0

\* lines 340-360: one iteration of `for _ in range(count)`; only draw.text
\* is inside the try
DistractorStep ==
    /\ gpc = "non_ascii_distractors"
    /\ ndpc = "loop"
    /\ nd_k < nd_count
    /\ LET w == canvas[1]
           h == canvas[2]
       IN
       IF RandbelowRaises(w \div 4) \/ RandbelowRaises(h - 30)
       THEN /\ layer_raised' = "ValueError"
            /\ ndpc' = "raised"
            /\ gpc' = "raised"
            /\ UNCHANGED <<nd_k, nd_drawn, nd_skipped, nd_last>>
       ELSE \E side \in randbelow(2), xr \in randbelow(w \div 4),
               y \in randbelow(h - 30), rendered \in BOOLEAN :
              /\ nd_last' = <<IF side # 0 THEN xr ELSE xr + ((3 * w) \div 4), y>>
              /\ nd_drawn' = IF rendered THEN nd_drawn + 1 ELSE nd_drawn
              /\ nd_skipped' = IF rendered THEN nd_skipped ELSE nd_skipped + 1
              /\ nd_k' = nd_k + 1
              /\ UNCHANGED <<gpc, ndpc, layer_raised>>
    /\ UNCHANGED <<number, count, last_dot, curve_k, nd_count>>
    /\ UNCHANGED <<textVars, profileVars, driverVars, composeVars, fontVars,
                   gapVars, warpVars>>

\* line 362: return image
DistractorsReturn ==
    /\ gpc = "non_ascii_distractors"
    /\ ndpc = "loop"
    /\ ~(nd_k < nd_count)
    /\ ndpc' = "returned"
    /\ gpc' = NextStage(gpc)
    /\ UNCHANGED <<number, count, last_dot, curve_k, nd_count, nd_k, nd_drawn,
                   nd_skipped, nd_last, layer_raised>>
    /\ UNCHANGED <<textVars, profileVars, driverVars, composeVars, fontVars,
                   gapVars, warpVars>>

\* lines 578-580: im = im.filter(SMOOTH); return im
Smooth ==
    /\ gpc = "smooth"
    /\ steps' = Append(steps, "smooth")
    /\ gpc' = NextStage(gpc)
    /\ UNCHANGED <<canvas, difficulty, chars, cpc, ci, images, last_u, spacing_per_gap,
                   start_offset, total_char_width, current_offset, pi, last_paste,
                   pasted, raised, background, raw_images>>
    /\ UNCHANGED <<number, count, last_dot, curve_k, nd_count, ndpc, nd_k, nd_drawn,
                   nd_skipped, nd_last, layer_raised>>
    /\ UNCHANGED <<textVars, profileVars, driverVars, fontVars, gapVars, warpVars>>

\* generate_image(chars) has chosen its colours and entered
\* create_captcha_image (lines 542-547)
ImageInit ==
    /\ TextIdle
    /\ ProfileIdle
    /\ DriverIdle
    /\ FontIdle
    /\ GapIdle
    /\ WarpIdle
    /\ ComposeEntered
    /\ gpc = "compose"
    /\ number = 0
    /\ count = 0
    /\ last_dot = <<0, 0>>
    /\ curve_k = 0
    /\ nd_count = 0
    /\ ndpc = "idle"
    /\ nd_k = 0
    /\ nd_drawn = 0
    /\ nd_skipped = 0
    /\ nd_last = <<0, 0>>
    /\ layer_raised = "none"

ImageNext ==
    \/ ComposeNext
    \/ CallNoiseDots
    \/ DotStep
    \/ DotsReturn
    \/ NoiseCurve
    \/ CurvesDone
    \/ LineDistractors
    \/ CircularDistractors
    \/ CallNonAscii
    \/ DistractorStep
    \/ DistractorsReturn
    \/ Smooth

SpecImage == ImageInit /\ [][ImageNext]_vars

\* canvases add_non_ascii_distractors is called with: those of the demo and
\* lower ones
DistractorCanvases == Canvases \cup {<<160, 30>>, <<120, 31>>, <<100, 20>>}

\* add_non_ascii_distractors(image, color, count) entered on a canvas of
\* some size (lines 331-339)
DistractorsInit ==
    /\ TextIdle
    /\ ProfileIdle
    /\ DriverIdle
    /\ FontIdle
    /\ GapIdle
    /\ WarpIdle
    /\ canvas \in DistractorCanvases
    /\ difficulty = "part4"
    /\ chars = <<>>
    /\ cpc = "idle"
    /\ ci = 1
    /\ images = <<>>
    /\ last_u = 0
    /\ spacing_per_gap = 0
    /\ start_offset = 0
    /\ total_char_width = 0
    /\ current_offset = 0
    /\ pi = 1
    /\ last_paste = NoPaste
    /\ pasted = 0
    /\ raised = "none"
    /\ background = "complex"
    /\ steps = <<"canvas", "complex_background", "non_ascii_distractors">>
    /\ raw_images = <<>>
    /\ gpc = "non_ascii_distractors"
    /\ number = 0
    /\ count = 0
    /\ last_dot = <<0, 0>>
    /\ curve_k = 0
    /\ nd_count \in 0 .. MaxDistractors
    /\ ndpc = "loop"
    /\ nd_k = 0
    /\ nd_drawn = 0
    /\ nd_skipped = 0
    /\ nd_last = <<0, 0>>
    /\ layer_raised = "none"

DistractorsNext == DistractorStep \/ DistractorsReturn

SpecDistractors == DistractorsInit /\ [][DistractorsNext]_vars

(***************************************************************************)
(* Font pool: the property EnhancedImageCaptcha.truefonts                  *)
(***************************************************************************)
\* longest list of font files given to the constructor, and most reads of
\* the property
MaxFonts == 2
MaxReads == 2

FontFiles == {"a.ttf", "b.ttf"}

\* line 182: self._font_sizes = font_sizes or (30, 36, 42, 48)
DefaultFontSizes == <<30, 36, 42, 48>>
FontSizeChoices == {DefaultFontSizes, <<20>>}

FontLists == UNION {[1 .. n -> FontFiles] : n \in 0 .. MaxFonts}

\* the font load_default() returns
DefaultFont == <<"load_default", 0>>

\* lines 230-238: the <<font_path, size>> pairs in the order the nested
\* loops visit them
RECURSIVE PairsOf(_, _)
PairsOf(paths, sizes) ==
    IF paths = <<>> THEN <<>>
    ELSE [k \in 1 .. Len(sizes) |-> <<Head(paths), sizes[k]>>]
             \o PairsOf(Tail(paths), sizes)

\* lines 233-238: truetype raises for a pair that cannot be loaded; the
\* pair is skipped
loaded_fonts(paths, sizes) ==
    SelectSeq(PairsOf(paths, sizes), LAMBDA pair : pair \in loadable)

FallbackPool_None(loaded) == loaded

\* lines 240-245: if loaded_fonts ... else [load_default()]
FallbackPool(loaded) == IF loaded # <<>> THEN loaded ELSE <<DefaultFont>>

\* lines 223-254: one read of self.truefonts
ReadTruefonts ==
    /\ reads < MaxReads
    /\ IF truefonts # <<>>
       THEN \* line 224
            UNCHANGED <<truefonts, load_runs>>
       ELSE IF fonts # <<>>
       THEN /\ truefonts' = FallbackPool(loaded_fonts(fonts, font_sizes))
            /\ load_runs' = load_runs + 1
       ELSE \* line 252
            /\ truefonts' = <<DefaultFont>>
            /\ load_runs' = load_runs + 1
    /\ reads' = reads + 1
    /\ returned_pools' = Append(returned_pools, truefonts')
    /\ UNCHANGED <<fonts, font_sizes, loadable>>
    /\ UNCHANGED <<textVars, profileVars, driverVars, composeVars, imageVars,
                   gapVars, warpVars>>

\* an instance constructed with some font files and sizes (lines 181-182,
\* 218) in an environment where some of the pairs load
FontInit ==
    /\ TextIdle
    /\ ProfileIdle
    /\ DriverIdle
    /\ ComposeIdle
    /\ ImageIdle
    /\ GapIdle
    /\ WarpIdle
    /\ fonts \in FontLists
    /\ font_sizes \in FontSizeChoices
    /\ loadable \in SUBSET {<<f, font_sizes[k]>> : f \in FontFiles,
                                                   k \in DOMAIN font_sizes}
    /\ truefonts = <<>>
    /\ load_runs = 0
    /\ reads = 0
    /\ returned_pools = <<>>

FontNext == ReadTruefonts

SpecFonts == FontInit /\ [][FontNext]_vars

(***************************************************************************)
(* The gap computation of create_captcha_image (lines 482-514) applied to  *)
(* a canvas width and a number of glyph images                             *)
(***************************************************************************)
\* most glyph images laid out (characters and inserted spaces)
MaxGlyphs == 60

GapWidths == {c[1] : c \in DistractorCanvases}

ComputeGap ==
    /\ gap_call.pc = "called"
    /\ gap_call' = [gap_call EXCEPT
           !.pc = "returned",
           !.spacing_per_gap = Overlapped(ConfigOf(gap_call.tier),
                                          SpacingPerGap(gap_call.width,
                                                        gap_call.num_chars))]
    /\ UNCHANGED <<textVars, profileVars, driverVars, composeVars, imageVars,
                   fontVars, warpVars>>

\* line 482 reached with some number of glyph images on a canvas of some
\* width
GapInit ==
    /\ TextIdle
    /\ ProfileIdle
    /\ DriverIdle
    /\ ComposeIdle
    /\ ImageIdle
    /\ FontIdle
    /\ WarpIdle
    /\ \E W \in GapWidths, n \in 1 .. MaxGlyphs, t \in RegisteredTiers :
           gap_call = [pc |-> "called", width |-> W, num_chars |-> n, tier |-> t,
                       spacing_per_gap |-> 0]

GapNext == ComputeGap

SpecGap == GapInit /\ [][GapNext]_vars

(***************************************************************************)
(* The warp of _draw_character (lines 434-440) applied to a glyph box.     *)
(* dx2 and dy2 are kept in ten-thousandths of a pixel.                     *)
(***************************************************************************)
\* lines 435-436: size * u * (range[1] - range[0]) + range[0]; the product
\* binds tighter than the sum, so range[0] is added to it, not scaled by size
WarpBound(size, u, range) == size * u * (range[2] - range[1]) + range[1] * 100

\* int() of a double whose exact value is num / den (den > 0): truncation
\* toward zero, and one nearer to zero when the exact value is a nonzero
\* integer that the double may miss
IntOfSigned(num, den) ==
    IF num % den = 0 /\ num # 0
    THEN {TruncDiv(num, den), TruncDiv(num, den) - (IF num > 0 THEN 1 ELSE -1)}
    ELSE {TruncDiv(num, den)}

\* lines 437-440: int(u * (d - (-d)) + (-d)) for d in ten-thousandths
WarpCorner(u, d) == IntOfSigned(u * 2 * d - 100 * d, 1000000)

Warp ==
    /\ warp_call.pc = "called"
    /\ LET cfg == ConfigOf(warp_call.tier) IN
       \E ux \in Uniform01, uy \in Uniform01 :
         LET dx2 == WarpBound(warp_call.w, ux, cfg.character_warp_dx)
             dy2 == WarpBound(warp_call.h, uy, cfg.character_warp_dy)
         IN
         \E u1 \in Uniform01, u2 \in Uniform01, u3 \in Uniform01, u4 \in Uniform01 :
           \E x1 \in WarpCorner(u1, dx2), y1 \in WarpCorner(u2, dy2),
              x2 \in WarpCorner(u3, dx2), y2 \in WarpCorner(u4, dy2) :
             warp_call' = [warp_call EXCEPT !.pc = "returned", !.dx2 = dx2,
                               !.dy2 = dy2, !.x1 = x1, !.y1 = y1, !.x2 = x2,
                               !.y2 = y2]
    /\ UNCHANGED <<textVars, profileVars, driverVars, composeVars, imageVars,
                   fontVars, gapVars>>

\* line 434 reached for a glyph whose text box is w x h (line 413)
WarpInit ==
    /\ TextIdle
    /\ ProfileIdle
    /\ DriverIdle
    /\ ComposeIdle
    /\ ImageIdle
    /\ FontIdle
    /\ GapIdle
    /\ \E sz \in GlyphSizes, t \in RegisteredTiers :
           warp_call = [pc |-> "called", w |-> sz[1], h |-> sz[2], tier |-> t,
                        dx2 |-> 0, dy2 |-> 0, x1 |-> 0, y1 |-> 0, x2 |-> 0,
                        y2 |-> 0]

WarpNext == Warp

SpecWarp == WarpInit /\ [][WarpNext]_vars

(***************************************************************************)
(* C1: for every explicit length L in 3..7, generate_text(L) returns a     *)
(* string of exactly L characters, each one of the 36 symbols 0-9, A-Z.    *)
(***************************************************************************)
Digits  == {"0", "1", "2", "3", "4", "5", "6", "7", "8", "9"}
Letters == {"A", "B", "C", "D", "E", "F", "G", "H", "I", "J", "K", "L", "M",
            "N", "O", "P", "Q", "R", "S", "T", "U", "V", "W", "X", "Y", "Z"}

C1_ExplicitLength ==
    (textPc = "returned" /\ callArg # None /\ callArg[1] \in ExplicitLengths) =>
        /\ Len(returned) = callArg[1]
        /\ \A k \in 1 .. Len(returned) : returned[k] \in Digits \cup Letters
        /\ Cardinality(Digits \cup Letters) = 36

C1_Witness ==
    /\ textPc = "returned"
    /\ callArg = Some(7)
    /\ Len(returned) = 7
    /\ returned[1] = "0"
    /\ returned[7] = "Z"

(***************************************************************************)
(* C2: generate_text() without a length always returns a string whose      *)
(* length is in 3..7, and each of 3, 4, 5, 6, 7 is a possible outcome.     *)
(***************************************************************************)
C2_DefaultLength ==
    /\ (textPc = "returned" /\ callArg = None) => Len(returned) \in 3 .. 7
    /\ seenLengths \subseteq 3 .. 7

C2_Witness ==
    /\ textPc = "returned"
    /\ callArg = None
    /\ seenLengths = {3, 4, 5, 6, 7}

(***************************************************************************)
(* C3: resolving a profile for a tier name that is not registered (part2,  *)
(* part3, part4), e.g. "part5", fails with an UnknownTierError and yields  *)
(* no profile: no instance ever holds a profile under such a name.         *)
(***************************************************************************)
HoldsProfile(inst) == DOMAIN inst.config.items # {}

C3_UnknownTierYieldsNoProfile ==
    \A k \in DOMAIN instances :
        instances[k].difficulty \notin RegisteredTiers => ~HoldsProfile(instances[k])

(***************************************************************************)
(* C8: resolving the same tier twice, with any generation calls on either  *)
(* instance in between, yields two profiles with identical field values in *)
(* distinct top-level containers; no generation call changes a resolved    *)
(* profile or the per-tier table.                                          *)
(***************************************************************************)
TableEntry(tier) ==
    IF tier = "part3" THEN ClassTable.medium_config
    ELSE IF tier = "part4" THEN ClassTable.hard_config
    ELSE ClassTable.base_config

ClassDictIds == {classTable.base_config.id, classTable.medium_config.id,
                 classTable.hard_config.id}

C8_ResolveIdempotent ==
    /\ classTable = ClassTable
    /\ \A a \in DOMAIN instances :
        /\ instances[a].config.items = TableEntry(instances[a].difficulty).items
        /\ instances[a].config.id \notin ClassDictIds
    /\ \A a, b \in DOMAIN instances :
        (a # b /\ instances[a].difficulty = instances[b].difficulty) =>
            /\ instances[a].config.items = instances[b].config.items
            /\ instances[a].config.id # instances[b].config.id

C8_Witness ==
    /\ Len(instances) = 2
    /\ instances[1].difficulty = "part4"
    /\ instances[2].difficulty = "part4"
    /\ instances[1].truefonts_loaded
    /\ instances[2].calls_before >= 1
    /\ instances[2].calls >= 1

(***************************************************************************)
(* C4: in generate_part, a failure while producing a sample never aborts   *)
(* the batch: after any failed sample the driver is not aborted, it can    *)
(* still take its next step until it is done, and when it is done every    *)
(* sample 0..num_samples-1 was attempted and the manifest was written.     *)
(***************************************************************************)
C4_FailureNeverAborts ==
    /\ failed # {} => /\ pc # "aborted"
                      /\ (pc = "done" \/ ENABLED DriverNext)
                      /\ \A k \in failed : k < i
    /\ pc = "done" => /\ attempted = 0 .. (part_config.num_samples - 1)
                      /\ manifest.written

C4_Witness ==
    /\ pc = "done"
    /\ manifest.written
    /\ 0 \in failed
    /\ 1 \in attempted \ failed
    /\ 2 \in failed

(***************************************************************************)
(* C5: after generate_part finishes, every manifest entry's captcha_string *)
(* is exactly the string passed to the renderer for the image named by the *)
(* entry's filename, and a sample has an entry only if its image was       *)
(* written without error.                                                  *)
(***************************************************************************)
C5_ManifestMatchesRender ==
    pc = "done" =>
        \A k \in 1 .. Len(manifest.entries) :
            LET e == manifest.entries[k] IN
            /\ e.filename \in DOMAIN disk
            /\ disk[e.filename].chars = e.captcha_string
            /\ disk[e.filename].complete
            /\ \E n \in attempted \ failed : e.filename = image_filename(n)
            /\ \A n \in failed : e.filename # image_filename(n)

C5_Witness ==
    /\ pc = "done"
    /\ Len(manifest.entries) = 2
    /\ manifest.entries[1].captcha_string = <<"0">>
    /\ manifest.entries[2].captcha_string = <<"Z">>
    /\ manifest.entries[2].filename = <<"0", "0", "0", "0", "0", "3", ".", "p", "n", "g">>
    /\ failed = {1}
    /\ ~disk[image_filename(1)].complete

(***************************************************************************)
(* C6: for every sample index i and every configured min_length <=         *)
(* max_length, the ground-truth string generated by the driver for sample  *)
(* i has length within [min_length, max_length].                           *)
(***************************************************************************)
C6_LengthWithinConfig ==
    part_config.min_length <= part_config.max_length =>
        /\ (pc = "generate_text" /\ textPc = "returned") =>
               Len(returned) \in part_config.min_length .. part_config.max_length
        /\ \A k \in 1 .. Len(labels) :
               Len(labels[k].captcha_string)
                   \in part_config.min_length .. part_config.max_length

C6_Witness ==
    /\ part_config.min_length < part_config.max_length
    /\ pc = "generate_text"
    /\ textPc = "returned"
    /\ i = 2
    /\ Len(returned) = part_config.min_length
    /\ Len(labels) = 2
    /\ Len(labels[2].captcha_string) = part_config.max_length

(***************************************************************************)
(* C7 (as stated): composing a text of length 0 or 1 never raises; length  *)
(* 0 returns the canvas with no glyph composited; a single character is    *)
(* laid out with spacing per gap equal to 0.                               *)
(***************************************************************************)
LaidOut == cpc \in {"paste", "returned"}

C7_SingleCharSpacingZero ==
    Len(chars) <= 1 =>
        /\ raised = "none"
        /\ cpc # "raised"
        /\ (Len(chars) = 0 /\ cpc = "returned") => pasted = 0
        /\ (Len(chars) = 1 /\ LaidOut) => spacing_per_gap = 0

(***************************************************************************)
(* C7 (amended): composing a text of length 0 or 1 never raises; length 0  *)
(* returns the canvas with no glyph composited; a single character is laid *)
(* out with spacing per gap 0 when it is the only glyph, and when a space  *)
(* glyph was inserted before it the two glyphs are separated by one        *)
(* positive gap.                                                           *)
(***************************************************************************)
C7_ShortTextNeverRaises ==
    Len(chars) <= 1 =>
        /\ raised = "none"
        /\ cpc # "raised"
        /\ (Len(chars) = 0 /\ cpc = "returned") => pasted = 0
        /\ (Len(chars) = 1 /\ LaidOut /\ Len(images) = 1) => spacing_per_gap = 0
        /\ (Len(chars) = 1 /\ LaidOut /\ Len(images) = 2) =>
               /\ images[1].c = " "
               /\ spacing_per_gap > 0

C7_Witness ==
    /\ Len(chars) = 1
    /\ cpc = "returned"
    /\ Len(images) = 1
    /\ pasted = 1
    /\ spacing_per_gap = 0
    /\ raised = "none"

(***************************************************************************)
(* C9: during composition, for each character a space glyph is inserted    *)
(* immediately before it exactly when the uniform draw u satisfies          *)
(* u < word_space_probability, and the character's own glyph is always      *)
(* rendered.                                                                *)
(***************************************************************************)
C9_SpaceIffDrawBelowProbability ==
    (cpc = "draw" /\ ci > 1) =>
        LET n == Len(images) IN
        /\ n >= 1
        /\ images[n].c = chars[ci - 1]
        /\ (n >= 2 /\ images[n - 1].c = " ")
               <=> (last_u < ConfigOf(difficulty).word_space_probability)

(***************************************************************************)
(* C10: every glyph pasted lies vertically inside the canvas after the     *)
(* jitter is clamped: 0 <= vertical_offset and vertical_offset + glyph     *)
(* height <= canvas height, upscaled glyphs included.                      *)
(***************************************************************************)
C10_GlyphVerticallyInside ==
    pasted > 0 =>
        /\ 0 <= last_paste.y
        /\ last_paste.y + last_paste.h <= canvas[2]

(***************************************************************************)
(* C11: in every generated image the complex background, drawn only when   *)
(* the profile enables it, is applied strictly before any glyph is         *)
(* composited; every other distortion layer (noise dots, noise curves,     *)
(* line, circular and non-ASCII distractors) is applied strictly after all *)
(* glyphs; the smoothing filter is applied last and exactly once, for      *)
(* every tier.                                                             *)
(***************************************************************************)
OverlayLayers == {"noise_dots", "noise_curve", "line_distractors",
                  "circular_distractors", "non_ascii_distractors"}

Occurrences(log, name) == {k \in DOMAIN log : log[k] = name}

C11_LayerOrder ==
    /\ Occurrences(steps, "complex_background") # {} =>
           Get(ConfigOf(difficulty), "complex_background", FALSE)
    /\ (Get(ConfigOf(difficulty), "complex_background", FALSE)
            /\ Occurrences(steps, "glyph") # {}) =>
           Occurrences(steps, "complex_background") # {}
    /\ \A b \in Occurrences(steps, "complex_background"),
          g \in Occurrences(steps, "glyph") : b < g
    /\ \A k \in DOMAIN steps, g \in Occurrences(steps, "glyph") :
           steps[k] \in OverlayLayers => g < k
    /\ \A k \in Occurrences(steps, "smooth") : k = Len(steps)
    /\ gpc = "returned" => Cardinality(Occurrences(steps, "smooth")) = 1

C11_Witness ==
    /\ gpc = "returned"
    /\ difficulty = "part4"
    /\ Len(chars) = 2
    /\ Cardinality(Occurrences(steps, "glyph")) >= 2
    /\ \A layer \in OverlayLayers : Occurrences(steps, layer) # {}
    /\ steps[2] = "complex_background"
    /\ steps[Len(steps)] = "smooth"

(***************************************************************************)
(* C12: after the first read of the font pool the pool is never empty: it  *)
(* holds exactly one entry per (font file, size) pair that loaded, a       *)
(* failing pair being skipped; if no font file is known or no pair loads   *)
(* it holds exactly the single built-in font; later reads return the same  *)
(* pool without loading again.                                             *)
(***************************************************************************)
CountIn(seq, x) == Cardinality({k \in DOMAIN seq : seq[k] = x})

C12_FontPool ==
    reads > 0 =>
        /\ truefonts # <<>>
        /\ LET visited == {<<fonts[a], font_sizes[b]>> :
                              a \in DOMAIN fonts, b \in DOMAIN font_sizes}
           IN
           IF visited \cap loadable = {}
           THEN truefonts = <<DefaultFont>>
           ELSE /\ CountIn(truefonts, DefaultFont) = 0
                /\ \A f \in FontFiles, b \in DOMAIN font_sizes :
                       CountIn(truefonts, <<f, font_sizes[b]>>) =
                           IF <<f, font_sizes[b]>> \in loadable
                           THEN CountIn(fonts, f) ELSE 0
                /\ \A k \in DOMAIN truefonts : truefonts[k] \in visited
        /\ load_runs = 1
        /\ \A k \in DOMAIN returned_pools : returned_pools[k] = truefonts

C12_Witness ==
    /\ reads = 2
    /\ Len(fonts) = 2
    /\ fonts[1] # fonts[2]
    /\ font_sizes = DefaultFontSizes
    /\ Len(truefonts) = 3
    /\ CountIn(truefonts, DefaultFont) = 0
    /\ load_runs = 1

(***************************************************************************)
(* C13: the non-ASCII distractor layer never aborts image generation, for  *)
(* every canvas width and height and every distractor count: a failure     *)
(* while placing one distractor skips only that placement, and the loop    *)
(* goes on to the remaining ones.                                          *)
(***************************************************************************)
C13_DistractorsNeverAbort ==
    /\ layer_raised = "none"
    /\ gpc # "raised"
    /\ nd_drawn + nd_skipped = nd_k
    /\ ndpc = "returned" => nd_k = nd_count

(***************************************************************************)
(* C14: whenever at least two glyphs are laid out the spacing per gap is   *)
(* at least 1 pixel, for every canvas width and every glyph count.         *)
(***************************************************************************)
C14_SpacingAtLeastOne ==
    (gap_call.pc = "returned" /\ gap_call.num_chars >= 2) =>
        gap_call.spacing_per_gap >= 1

(***************************************************************************)
(* C15: for a glyph of width w and height h and a tier with warp ranges    *)
(* (lo_dx, hi_dx) and (lo_dy, hi_dy), the horizontal warp bound m_x        *)
(* satisfies w*lo_dx <= m_x <= w*hi_dx and the vertical bound m_y          *)
(* satisfies h*lo_dy <= m_y <= h*hi_dy; the corner perturbations satisfy   *)
(* -m_x <= x1, x2 <= m_x and -m_y <= y1, y2 <= m_y.                        *)
(***************************************************************************)
C15_WarpWithinRange ==
    warp_call.pc = "returned" =>
        LET cfg == ConfigOf(warp_call.tier)
            w == warp_call.w
            h == warp_call.h
            m_x == warp_call.dx2
            m_y == warp_call.dy2
        IN
        /\ w * cfg.character_warp_dx[1] * 100 <= m_x
        /\ m_x <= w * cfg.character_warp_dx[2] * 100
        /\ h * cfg.character_warp_dy[1] * 100 <= m_y
        /\ m_y <= h * cfg.character_warp_dy[2] * 100
        /\ \A x \in {warp_call.x1, warp_call.x2} :
               -m_x <= x * 10000 /\ x * 10000 <= m_x
        /\ \A y \in {warp_call.y1, warp_call.y2} :
               -m_y <= y * 10000 /\ y * 10000 <= m_y

(***************************************************************************)
(* C16: whenever the total glyph width is below the glyph budget (70% of   *)
(* 90% of the canvas width), for any number of glyphs >= 1, every glyph is *)
(* upscaled by the same factor so that the total glyph width after scaling *)
(* reaches the budget up to per-glyph integer rounding.                    *)
(***************************************************************************)
C16_UpscaledToBudget ==
    (LaidOut /\ Len(raw_images) >= 1
        /\ SumWidths(raw_images) * 100 < 63 * canvas[1]) =>
        /\ Len(images) = Len(raw_images)
        /\ \A k \in DOMAIN raw_images :
               images[k] \in ScaleOne(raw_images[k], SumWidths(raw_images),
                                      canvas[1])
        /\ total_char_width * 100 <= 63 * canvas[1]
        /\ total_char_width * 100 >= 63 * canvas[1] - 100 * Len(images)

(***************************************************************************)
(* C18: every glyph pasted lies horizontally inside the canvas:            *)
(* 0 <= final_offset and final_offset + glyph width <= canvas width, for   *)
(* every space pattern and glyph width.                                    *)
(***************************************************************************)
C18_GlyphHorizontallyInside ==
    pasted > 0 =>
        /\ 0 <= last_paste.x
        /\ last_paste.x + last_paste.w <= canvas[1]

(***************************************************************************)
(* C17 (as stated): from part2 to part3 to part4 every distortion          *)
(* parameter is non-decreasing (upper bounds of the offset ranges, rotation *)
(* magnitude, both bounds of the warp-dx and warp-dy ranges,               *)
(* word_space_probability, word_offset_dx, noise_dots, noise_curves,       *)
(* distractor counts), and the layers enabled in a lower tier are a subset *)
(* of those enabled in a higher tier.                                      *)
(***************************************************************************)
TierRank(tier) == CASE tier = "part2" -> 1 [] tier = "part3" -> 2
                    [] tier = "part4" -> 3

WarpParams == {"warp_dx_lo", "warp_dx_hi", "warp_dy_lo", "warp_dy_hi"}

OtherParams == {"offset_dx_hi", "offset_dy_hi", "rotate", "word_space_probability",
                "word_offset_dx", "noise_dots", "noise_curves", "line_distractors",
                "circular_distractors", "non_ascii_distractors"}

Param(cfg, name) ==
    CASE name = "offset_dx_hi" -> cfg.character_offset_dx[2]
      [] name = "offset_dy_hi" -> cfg.character_offset_dy[2]
      [] name = "rotate" -> Max(-cfg.character_rotate[1], cfg.character_rotate[2])
      [] name = "warp_dx_lo" -> cfg.character_warp_dx[1]
      [] name = "warp_dx_hi" -> cfg.character_warp_dx[2]
      [] name = "warp_dy_lo" -> cfg.character_warp_dy[1]
      [] name = "warp_dy_hi" -> cfg.character_warp_dy[2]
      [] name = "word_space_probability" -> cfg.word_space_probability
      [] name = "word_offset_dx" -> cfg.word_offset_dx
      [] name = "noise_dots" -> cfg.noise_dots
      [] name = "noise_curves" -> cfg.noise_curves
      [] name = "line_distractors" -> Get(cfg, "line_distractors", 0)
      [] name = "circular_distractors" -> Get(cfg, "circular_distractors", 0)
      [] name = "non_ascii_distractors" -> Get(cfg, "non_ascii_distractors", 0)

EnabledLayers(cfg) ==
    {name \in {"noise_dots", "noise_curves", "line_distractors",
               "circular_distractors", "non_ascii_distractors"} :
        Param(cfg, name) > 0}
    \cup {name \in {"complex_background", "blur_effect", "character_overlap"} :
            Get(cfg, name, FALSE)}

\* the pairs of constructed instances of registered tiers, lower tier first
TierPairs ==
    {<<a, b>> \in (DOMAIN instances) \X (DOMAIN instances) :
        /\ instances[a].difficulty \in RegisteredTiers
        /\ instances[b].difficulty \in RegisteredTiers
        /\ TierRank(instances[a].difficulty) <= TierRank(instances[b].difficulty)}

C17_TiersAscending ==
    \A pair \in TierPairs :
        LET lower == instances[pair[1]].config.items
            higher == instances[pair[2]].config.items
        IN
        /\ \A name \in WarpParams \cup OtherParams :
               Param(lower, name) <= Param(higher, name)
        /\ EnabledLayers(lower) \subseteq EnabledLayers(higher)

(***************************************************************************)
(* C17 (amended): from part2 to part3 to part4 the upper bounds of the     *)
(* offset ranges, the rotation magnitude, word_space_probability,          *)
(* word_offset_dx, noise_dots, noise_curves and the distractor counts are  *)
(* non-decreasing and the enabled layers are nested; the warp ranges are   *)
(* non-decreasing from part3 to part4 and from part2 to part4, but from    *)
(* part2 to part3 the upper bound of warp-dx and both bounds of warp-dy    *)
(* decrease.                                                               *)
(***************************************************************************)
C17_TiersAscendingButWarp ==
    \A pair \in TierPairs :
        LET low == instances[pair[1]]
            high == instances[pair[2]]
            lower == low.config.items
            higher == high.config.items
        IN
        /\ \A name \in OtherParams : Param(lower, name) <= Param(higher, name)
        /\ EnabledLayers(lower) \subseteq EnabledLayers(higher)
        /\ IF low.difficulty = "part2" /\ high.difficulty = "part3"
           THEN /\ Param(lower, "warp_dx_lo") = Param(higher, "warp_dx_lo")
                /\ \A name \in WarpParams \ {"warp_dx_lo"} :
                       Param(higher, name) < Param(lower, name)
           ELSE \A name \in WarpParams : Param(lower, name) <= Param(higher, name)

C17_Witness ==
    /\ Len(instances) = 2
    /\ instances[1].difficulty = "part2"
    /\ instances[2].difficulty = "part3"
    /\ EnabledLayers(instances[1].config.items) = {"noise_dots", "noise_curves"}
    /\ EnabledLayers(instances[2].config.items) =
           {"noise_dots", "noise_curves", "line_distractors", "complex_background"}

(***************************************************************************)
(* C19: the noise-dot layer draws exactly noise_dots marks and every mark  *)
(* is a pixel of the canvas: 0 <= x < width and 0 <= y < height.           *)
(***************************************************************************)
C19_DotsOnCanvas ==
    /\ count > 0 =>
           /\ 0 <= last_dot[1] /\ last_dot[1] < canvas[1]
           /\ 0 <= last_dot[2] /\ last_dot[2] < canvas[2]
    /\ gpc \in {"noise_curves", "line_distractors", "circular_distractors",
                "non_ascii_distractors", "smooth", "returned"} =>
           count = ConfigOf(difficulty).noise_dots

====
